---- MODULE Spec2Model ----
(***************************************************************************)
(* Luke Roberts Luvo BLE light (custom_components/luke_roberts/light.py).  *)
(*                                                                         *)
(* The light entity is driven by coroutines on one asyncio event loop: the *)
(* code between two awaits runs atomically, every await is a point where   *)
(* another coroutine or a BLE notification may run.  Two coroutines are    *)
(* modelled: "poll", the entity's periodic async_update, and "svc", a      *)
(* service call async_turn_on / async_turn_off.  The platform sets no      *)
(* PARALLEL_UPDATES and the entity holds no lock, so the two interleave at *)
(* their awaits.                                                           *)
(*                                                                         *)
(* Bytes objects are sequences of 0..255 (Python index i is TLA+ index     *)
(* i+1).  A str is the sequence of its code points; every name used here   *)
(* is ASCII, where bytes.decode() keeps each byte as one code point.       *)
(***************************************************************************)
EXTENDS Integers, Sequences, FiniteSets, TLC

(* ------------------------------ bounds -------------------------------- *)

\* Frames one call may write; a write beyond it is not modelled.
MaxSent == 4

\* Notifications the lamp may have in flight.
MaxNotif == 1

\* The deltas a caller may pass to adjust_brightness are -MaxDelta..MaxDelta.
MaxDelta == 130

(* ------------------------- program constants -------------------------- *)

EFFECT_ID_DEFAULT == 255
EFFECT_ID_OFF == 0
MIN_KELVIN == 2700
MAX_KELVIN == 4000
END_OF_LIST == 255
MIN_DELTA == -100
MAX_DELTA == 100

\* Python's None where an int is expected (dict.get on a missing key).
NoId == -1

\* Python's None where a str is expected (self._effect).
NoneName == << -1 >>

\* No ATTR_HS_COLOR in kwargs.
NoHs == << >>

Tasks == {"poll", "svc"}

(* --------------------------- names (ASCII) ---------------------------- *)

NameOff == <<111, 102, 102>>
NameDim == <<100, 105, 109>>
NameBright == <<98, 114, 105, 103, 104, 116>>
NameNope == <<110, 111, 112, 101>>

(* ------------------------------ Python -------------------------------- *)

Max(a, b) == IF a >= b THEN a ELSE b
Min(a, b) == IF a <= b THEN a ELSE b

\* A Python object with its type, for == between objects of different types.
BytesObj(s) == [type |-> "bytes", val |-> s]
IntObj(n) == [type |-> "int", val |-> <<n>>]

\* a == b in Python: objects of different types are never equal.
PyEq(a, b) == a.type = b.type /\ a.val = b.val

DictGetOrZero(d, k) ==
    IF \E i \in 1..Len(d) : d[i][1] = k
    THEN LET i == CHOOSE j \in 1..Len(d) : d[j][1] = k IN d[i][2]
    ELSE 0

\* dict.get(key): the value, or None.  A dict is the sequence of its
\* (key, value) pairs in insertion order, keys distinct.
DictGet(d, k) ==
    IF \E i \in 1..Len(d) : d[i][1] = k
    THEN LET i == CHOOSE j \in 1..Len(d) : d[j][1] = k IN d[i][2]
    ELSE NoId

DictSetFront(d, k, v) ==
    IF \E i \in 1..Len(d) : d[i][1] = k
    THEN [i \in 1..Len(d) |-> IF d[i][1] = k THEN <<k, v>> ELSE d[i]]
    ELSE <<(<<k, v>>)>> \o d

\* d[k] = v: an existing key keeps its place, a new key goes last.
DictSet(d, k, v) ==
    IF \E i \in 1..Len(d) : d[i][1] = k
    THEN [i \in 1..Len(d) |-> IF d[i][1] = k THEN <<k, v>> ELSE d[i]]
    ELSE Append(d, <<k, v>>)

DictKeys(d) == [i \in 1..Len(d) |-> d[i][1]]

(* ---------------------- decoding (light.py) --------------------------- *)

StatusOkAlways(scene_data) == TRUE

\* scene_data[0] != 0x00 is the failure test of the traversal.
StatusOk(scene_data) == scene_data[1] = 0

\* scene_data[3:].decode()
SceneName(scene_data) == SubSeq(scene_data, 4, Len(scene_data))

NextIdByte1(scene_data) == scene_data[2]

\* scene_data[2]
NextId(scene_data) == scene_data[3]

\* return response == 0x00 in _set_effect: a bytearray against an int.
SetEffectResult(response) == PyEq(BytesObj(response), IntObj(0))

\* return response[0] == 0x00 if response else False
SetResult(response) == IF Len(response) > 0 THEN response[1] = 0 ELSE FALSE

\* len(received_data) >= 2 and received_data[0] == 0x00 (sensor.py)
PingOk(received_data) == Len(received_data) >= 2 /\ received_data[1] = 0

\* _get_effect_name_by_id: first name whose id is effect_id, else None.
GetEffectNameById(d, effect_id) ==
    IF \E i \in 1..Len(d) : d[i][2] = effect_id
    THEN LET S == {j \in 1..Len(d) : d[j][2] = effect_id}
             i == CHOOSE j \in S : \A k \in S : j <= k
         IN d[i][1]
    ELSE NoneName

IsOnTruthy(d, eff) == DictGet(d, eff) \notin {0, NoId}

\* is_on: self._effect_map.get(self._effect) != 0
IsOn(d, eff) == DictGet(d, eff) # 0

(* ---------------------- encoding (light.py) --------------------------- *)

\* The arguments are integers; on them int() of the float expression is
\* the floor of the exact quotient, for every value of the argument's range.

\* b"\xa0\x01\x01" + bytes([id])
GetSceneFrame(id) == <<160, 1, 1, id>>

\* bytes([0xA0, 0x02, 0x00]) (sensor.py)
PingFrame == <<160, 2, 0>>

\* b"\xa0\x02\x05" + bytes([effect_id])
SetEffectFrame(id) == <<160, 2, 5, id>>

\* int((brightness / 255) * 100)
BrightnessPercent(b) == (b * 100) \div 255

\* bytes([0xA0, 0x01, 0x03, brightness_percent])
BrightnessFrame(pct) == <<160, 1, 3, pct>>

\* int((hue / 360) * 65535)
HueInt(hue) == (hue * 65535) \div 360

\* int((saturation / 100) * 255)
SaturationByte(sat) == (sat * 255) \div 100

\* n.to_bytes(2, byteorder='big')
ToBytes2(n) == <<n \div 256, n % 256>>

UplightFrame(hue, sat, bright) ==
    <<160, 1, 2, 1>> \o ToBytes2(0) \o <<SaturationByte(sat)>>
        \o ToBytes2(HueInt(hue)) \o <<bright>>

ClampKelvinNot(k) == k

\* max(MIN_KELVIN, min(MAX_KELVIN, kelvin))
ClampKelvin(k) == Max(MIN_KELVIN, Min(MAX_KELVIN, k))

DownlightFrame(kelvin, bright) ==
    <<160, 1, 2, 2>> \o ToBytes2(0) \o ToBytes2(ClampKelvin(kelvin)) \o <<bright>>

(* --------------------- encoding (__init__.py) ------------------------- *)

DeltaByteAbs(delta) == IF delta < 0 THEN 0 - delta ELSE delta

\* delta & 0xFF
DeltaByte(delta) == delta % 256

\* bytes([0xA0, 0x02, 0x08, delta_byte])
AdjustFrame(delta) == <<160, 2, 8, DeltaByte(delta)>>

\* vol.Range(min=-100, max=100): the value passes, or the call is invalid.
InRange(delta) == MIN_DELTA <= delta /\ delta <= MAX_DELTA

(* ------------------------------ the lamp ------------------------------ *)

SceneIds == {0, 3, 7}

NameOf(id) == IF id = 0 THEN NameOff ELSE IF id = 3 THEN NameDim ELSE NameBright

\* A lamp whose scene list is the chain c (distinct ids, from 0), the last
\* scene pointing to e; the descriptor request for scene bad fails.  Scenes
\* off the chain end the list.
LampOf(c, e, bad) ==
    [id \in SceneIds |->
        [status |-> IF id = bad THEN 1 ELSE 0,
         next |-> IF \E i \in 1..Len(c) - 1 : c[i] = id
                  THEN c[(CHOOSE i \in 1..Len(c) - 1 : c[i] = id) + 1]
                  ELSE IF id = c[Len(c)] THEN e ELSE END_OF_LIST,
         name |-> NameOf(id)]]

\* The lamps considered: well-formed lists, lists with a failing
\* descriptor, lists that loop.
Lamps ==
    {LampOf(<<0>>, END_OF_LIST, END_OF_LIST),
     LampOf(<<0, 3, 7>>, END_OF_LIST, END_OF_LIST),
     LampOf(<<0, 7, 3>>, END_OF_LIST, END_OF_LIST),
     LampOf(<<0>>, END_OF_LIST, 0),
     LampOf(<<0, 7, 3>>, END_OF_LIST, 3),
     LampOf(<<0, 3>>, 0, END_OF_LIST),
     LampOf(<<0, 3, 7>>, 3, END_OF_LIST)}

\* The notification answering a get-scene-descriptor request, in the layout
\* _update_effect_list reads: status, a byte it skips (the id asked for),
\* the next id, the name.  A failure carries the status byte only.
SceneReply(l, id) ==
    IF id \in SceneIds /\ l[id].status = 0
    THEN <<0, id, l[id].next>> \o l[id].name
    ELSE <<1>>

IsGetScene(f) == Len(f) = 4 /\ SubSeq(f, 1, 3) = <<160, 1, 1>>

\* The notifications the lamp may answer a frame with: the descriptor for
\* a get-scene request, a bare status byte (accepted or refused) for a set
\* command.
LampReplies(l, f) ==
    IF IsGetScene(f) THEN {SceneReply(l, f[4])} ELSE {<<0>>, <<1>>}

\* The notifications the lamp may answer a ping with: status and version,
\* or a bare failure status.
PingReplies == {<<0, 2>>, <<1>>}

\* Scene ids the current-scene characteristic may hold (the lamp is also
\* driven by its own switch and app, so any of its scenes, or one unknown
\* to the table).
ReadIds == {0, 7, 1}

(* ------------------------------ kwargs -------------------------------- *)

\* A keyword argument that is not in kwargs.
NoArg == -1

NoKwargs == [effect |-> NoneName, brightness |-> NoArg, hs |-> NoHs, kelvin |-> NoArg]

\* The calls of async_turn_on considered: no option, each option alone,
\* attributes together, an effect with an attribute.
Kwargs ==
    {NoKwargs,
     [NoKwargs EXCEPT !.effect = NameBright],
     [NoKwargs EXCEPT !.effect = NameNope],
     [NoKwargs EXCEPT !.brightness = 128],
     [NoKwargs EXCEPT !.hs = <<120, 50>>],
     [NoKwargs EXCEPT !.kelvin = 5000],
     [NoKwargs EXCEPT !.brightness = 128, !.kelvin = 5000],
     [NoKwargs EXCEPT !.hs = <<120, 50>>, !.kelvin = 5000],
     [NoKwargs EXCEPT !.brightness = 128, !.hs = <<120, 50>>, !.kelvin = 5000],
     [NoKwargs EXCEPT !.effect = NameBright, !.brightness = 128]}

HasEffectNever(kw) == FALSE

HasEffect(kw) == kw.effect # NoneName
HasBrightness(kw) == kw.brightness # NoArg
HasHs(kw) == kw.hs # NoHs
HasKelvin(kw) == kw.kelvin # NoArg

(* ------------------------------- state -------------------------------- *)

VARIABLES
    effect_map,         \* self._effect_map
    effect,             \* self._effect
    brightness,         \* self._brightness
    hs_color,           \* self._hs_color
    color_temp_kelvin,  \* self._color_temp_kelvin
    color_mode,         \* self._attr_color_mode
    lamp,               \* the scenes the lamp holds
    listener,           \* the callback armed on API_UUID: a task's current
                        \* send, "stale" (of a send that is over), "none"
    notif,              \* notifications on their way, oldest first
    task                \* per coroutine: position and locals

vars == <<effect_map, effect, brightness, hs_color, color_temp_kelvin,
          color_mode, lamp, listener, notif, task>>

entity == <<effect_map, effect, brightness, hs_color, color_temp_kelvin, color_mode>>

\* The entity's stored values, as a call finds them when it starts.
Snapshot ==
    [effect |-> effect, brightness |-> brightness,
     hs_color |-> hs_color, color_temp_kelvin |-> color_temp_kelvin]

IdleTask ==
    [pc |-> "idle",          \* the await the coroutine is suspended at
     op |-> "none",          \* the entity method running (or last run)
     kw |-> NoKwargs,        \* its kwargs
     ctx |-> "none",         \* the caller of _send_and_await_response
     frame |-> << >>,        \* data
     flag |-> FALSE,         \* data_received_flag
     received |-> << >>,     \* received_data
     map |-> << >>,          \* effect_map, local to _update_effect_list
     scene_id |-> 0,         \* scene_id, local to _update_effect_list
     delta |-> 0,            \* delta, of the adjust_brightness service
     armed |-> FALSE,        \* the sensor's own client has its callback
                             \* armed on API_UUID
     pending |-> << >>,      \* notifications on their way to that client
     api_version |-> NoId,   \* the sensor's self._api_version
     sent |-> << >>,         \* frames this call has written (history)
     answered |-> 0,         \* sends of this call whose wait() has
                             \* returned (history)
     result |-> "none",      \* how the call ended, once it is done
     pre |-> [effect |-> NoneName, brightness |-> 255,
              hs_color |-> <<0, 0>>, color_temp_kelvin |-> 3350],
                             \* Snapshot when the call started (history)
     clean |-> TRUE,         \* every notification this call's sends got
                             \* answered their own frame (history)
     acked |-> FALSE,        \* the last send got a status 0x00 reply to
                             \* its own frame (history)
     nacked |-> FALSE]       \* a send of this call got a reply to its own
                             \* frame with another status (history)

\* __init__
Init ==
    /\ effect_map = << >>
    /\ effect = NoneName
    /\ brightness = 255
    /\ hs_color = <<0, 0>>
    /\ color_temp_kelvin = 3350
    /\ color_mode = "hs"
    /\ lamp \in Lamps
    /\ listener = "none"
    /\ notif = << >>
    /\ task = [t \in Tasks |-> IdleTask]

(* ------------------------- coroutine plumbing ------------------------- *)

Running(t) == task[t].pc \notin {"idle", "done"}

\* Inside _send_and_await_response, from the start_notify on.
InSend(t) == task[t].pc \in {"arm", "write", "wait", "disarm"}

\* The coroutine returns to its caller in the event loop.
Return(tk) == [tk EXCEPT !.pc = "done", !.result = "returned"]

\* An exception leaves the coroutine: nothing in light.py catches any.
Raise(tk, exc) == [tk EXCEPT !.pc = "done", !.result = exc]

\* _send_and_await_response up to its first await: a fresh flag and buffer.
EnterSend(tk, c, f) ==
    [tk EXCEPT !.pc = "arm", !.ctx = c, !.frame = f, !.flag = FALSE,
               !.received = << >>, !.acked = FALSE]

\* A setter up to its first await, establish_connection.
EnterSetter(tk, c, f) == [tk EXCEPT !.pc = "connect", !.ctx = c, !.frame = f]

\* A call starts: fresh locals and history.
StartCall(o, k) == [IdleTask EXCEPT !.op = o, !.kw = k, !.pre = Snapshot]

\* Notifications answering task t's frames belong to no send once t's send
\* is over.
Orphan(q, t) == [i \in 1..Len(q) |-> IF q[i].to = t THEN [q[i] EXCEPT !.to = "none"] ELSE q[i]]

\* The callback of a send that ends without stop_notify stays armed.
Abandon(t) == IF listener = t THEN "stale" ELSE listener

(* ----------------------- async_turn_on options ------------------------ *)

NextStageDownFirst(kw, s) ==
    IF s = "begin" /\ HasBrightness(kw) THEN "bright"
    ELSE IF s \in {"begin", "bright"} /\ HasKelvin(kw) THEN "down"
    ELSE IF s \in {"begin", "bright", "down"} /\ HasHs(kw) THEN "up"
    ELSE "end"

\* The option async_turn_on handles after stage s, in the order of its
\* three ifs: brightness, hs color, color temperature.
NextStage(kw, s) ==
    IF s = "begin" /\ HasBrightness(kw) THEN "bright"
    ELSE IF s \in {"begin", "bright"} /\ HasHs(kw) THEN "up"
    ELSE IF s \in {"begin", "bright", "up"} /\ HasKelvin(kw) THEN "down"
    ELSE "end"

\* The frame the setter of stage s builds from its arguments.
StageFrame(s, kw, bright) ==
    IF s = "bright" THEN BrightnessFrame(BrightnessPercent(kw.brightness))
    ELSE IF s = "up" THEN UplightFrame(kw.hs[1], kw.hs[2], bright)
    ELSE DownlightFrame(ClampKelvin(kw.kelvin), bright)

\* async_turn_on from the if of stage s to the setter's first await: the
\* attribute is assigned, then the setter is called.  After the last option
\* the method returns (the default scene is for a call with no option).
StartOption(t, s, tk) ==
    /\ brightness' = IF s = "bright" THEN tk.kw.brightness ELSE brightness
    /\ hs_color' = IF s = "up" THEN tk.kw.hs ELSE hs_color
    /\ color_temp_kelvin' =
          IF s = "down" THEN ClampKelvin(tk.kw.kelvin) ELSE color_temp_kelvin
    /\ color_mode' =
          IF s = "up" THEN "hs" ELSE IF s = "down" THEN "color_temp" ELSE color_mode
    /\ task' = [task EXCEPT ![t] =
          IF s = "end" THEN Return(tk)
          ELSE EnterSetter(tk, s, StageFrame(s, tk.kw, brightness'))]

(* ------------------------------ actions ------------------------------- *)

\* async_update is called; it suspends in establish_connection.
BeginUpdate(t) ==
    /\ t = "poll"
    /\ task[t].pc = "idle"
    /\ task' = [task EXCEPT ![t] = EnterSetter(StartCall("update", NoKwargs), "update", << >>)]
    /\ UNCHANGED <<entity, lamp, listener, notif>>

\* async_turn_on(**kw) is called and runs to its first await, or returns.
BeginTurnOn(t, kw) ==
    /\ t = "svc"
    /\ task[t].pc = "idle"
    /\ LET tk == StartCall("turn_on", kw)
           effect_id == DictGet(effect_map, kw.effect)
       IN IF HasEffect(kw)
          THEN /\ task' = [task EXCEPT ![t] =
                    IF effect_id = NoId THEN Return(tk)
                    ELSE EnterSetter(tk, "effect", SetEffectFrame(effect_id))]
               /\ UNCHANGED entity
          ELSE IF NextStage(kw, "begin") = "end"
          THEN /\ task' = [task EXCEPT ![t] =
                    EnterSetter(tk, "default", SetEffectFrame(EFFECT_ID_DEFAULT))]
               /\ UNCHANGED entity
          ELSE /\ StartOption(t, NextStage(kw, "begin"), tk)
               /\ UNCHANGED <<effect_map, effect>>
    /\ UNCHANGED <<lamp, listener, notif>>

\* async_turn_off is called; it suspends in establish_connection.
BeginTurnOff(t) ==
    /\ t = "svc"
    /\ task[t].pc = "idle"
    /\ task' = [task EXCEPT ![t] =
          EnterSetter(StartCall("turn_off", NoKwargs), "off", SetEffectFrame(EFFECT_ID_OFF))]
    /\ UNCHANGED <<entity, lamp, listener, notif>>

ConnectAlwaysBuilds(t) ==
    /\ task[t].pc = "connect"
    /\ LET tk == task[t]
       IN task' = [task EXCEPT ![t] =
            IF tk.ctx = "update"
            THEN [EnterSend(tk, "scene", GetSceneFrame(0))
                     EXCEPT !.map = << >>, !.scene_id = 0]
            ELSE EnterSend(tk, tk.ctx, tk.frame)]
    /\ UNCHANGED <<entity, lamp, listener, notif>>

\* establish_connection returns a client.  async_update goes on to the
\* traversal when the table is empty, else to _update_effect; a setter goes
\* on to its send.
Connect(t) ==
    /\ task[t].pc = "connect"
    /\ LET tk == task[t]
       IN task' = [task EXCEPT ![t] =
            IF tk.ctx = "update"
            THEN IF effect_map = << >>
                 THEN [EnterSend(tk, "scene", GetSceneFrame(0))
                          EXCEPT !.map = << >>, !.scene_id = 0]
                 ELSE [tk EXCEPT !.pc = "read"]
            ELSE EnterSend(tk, tk.ctx, tk.frame)]
    /\ UNCHANGED <<entity, lamp, listener, notif>>

\* establish_connection raises.
ConnectFails(t) ==
    /\ task[t].pc = "connect"
    /\ task' = [task EXCEPT ![t] = Raise(task[t], "TransportError")]
    /\ UNCHANGED <<entity, lamp, listener, notif>>

ArmNot(t) ==
    /\ task[t].pc = "arm"
    /\ listener' = listener
    /\ task' = [task EXCEPT ![t].pc = "write"]
    /\ UNCHANGED <<entity, lamp, notif>>

\* start_notify(API_UUID, handle_notification) returns: this send's
\* callback is the one armed on the characteristic.
Arm(t) ==
    /\ task[t].pc = "arm"
    /\ listener' = t
    /\ task' = [task EXCEPT ![t].pc = "write"]
    /\ UNCHANGED <<entity, lamp, notif>>

\* write_gatt_char returns: the lamp has the frame, and answers it with a
\* notification or stays silent.
Write(t) ==
    /\ task[t].pc = "write"
    /\ Len(task[t].sent) < MaxSent
    /\ task' = [task EXCEPT ![t].pc = "wait", ![t].sent = Append(@, task[t].frame)]
    /\ \/ notif' = notif
       \/ /\ Len(notif) < MaxNotif
          /\ \E r \in LampReplies(lamp, task[t].frame) :
                notif' = Append(notif, [data |-> r, to |-> t])
    /\ UNCHANGED <<entity, lamp, listener>>

\* write_gatt_char raises: the exception leaves the send before stop_notify.
WriteFails(t) ==
    /\ task[t].pc = "write"
    /\ task' = [task EXCEPT ![t] = Raise(task[t], "TransportError")]
    /\ listener' = Abandon(t)
    /\ notif' = Orphan(notif, t)
    /\ UNCHANGED <<entity, lamp>>

\* A notification arrives: bleak calls the armed callback, which stores the
\* data and sets the flag of the send that armed it.
Deliver ==
    /\ notif # << >>
    /\ notif' = Tail(notif)
    /\ LET n == Head(notif)
       IN task' =
            IF listener \in Tasks
            THEN [task EXCEPT ![listener] =
                    [@ EXCEPT !.received = n.data, !.flag = TRUE,
                              !.clean = @ /\ n.to = listener,
                              !.acked = n.to = listener /\ SetResult(n.data),
                              !.nacked = @ \/ (n.to = listener /\ ~SetResult(n.data))]]
            ELSE task
    /\ UNCHANGED <<entity, lamp, listener>>

\* data_received_flag.wait() returns; the send suspends in stop_notify.
Wait(t) ==
    /\ task[t].pc = "wait"
    /\ task[t].flag
    /\ task' = [task EXCEPT ![t].pc = "disarm", ![t].answered = @ + 1]
    /\ UNCHANGED <<entity, lamp, listener, notif>>

\* stop_notify(API_UUID) returns: nothing is armed on the characteristic
\* any more, and the send returns received_data to its caller.
SendReturns(t, c) ==
    /\ task[t].pc = "disarm"
    /\ task[t].ctx = c
    /\ listener' = "none"
    /\ notif' = Orphan(notif, t)
    /\ lamp' = lamp

SceneReturnsStoresEach(t) ==
    /\ SendReturns(t, "scene")
    /\ LET tk == task[t]
           scene_data == tk.received
           m == DictSet(tk.map, SceneName(scene_data), tk.scene_id)
       IN IF Len(scene_data) < 1
          THEN /\ task' = [task EXCEPT ![t] = Raise(tk, "IndexError")]
               /\ effect_map' = effect_map
          ELSE IF ~StatusOk(scene_data)
          THEN /\ task' = [task EXCEPT ![t] = [tk EXCEPT !.pc = "read"]]
               /\ effect_map' = tk.map
          ELSE IF Len(scene_data) < 3
          THEN /\ task' = [task EXCEPT ![t] = Raise([tk EXCEPT !.map = m], "IndexError")]
               /\ effect_map' = m
          ELSE IF NextId(scene_data) = END_OF_LIST
          THEN /\ task' = [task EXCEPT ![t] =
                    [tk EXCEPT !.pc = "read", !.map = m, !.scene_id = NextId(scene_data)]]
               /\ effect_map' = m
          ELSE /\ task' = [task EXCEPT ![t] =
                    [EnterSend(tk, "scene", GetSceneFrame(NextId(scene_data)))
                        EXCEPT !.map = m, !.scene_id = NextId(scene_data)]]
               /\ effect_map' = m
    /\ UNCHANGED <<effect, brightness, hs_color, color_temp_kelvin, color_mode>>

\* _update_effect_list gets a descriptor: one turn of its while loop, up
\* to the next _get_scene, or to _update_effect's read once the table is
\* stored.  Indexing past the end of scene_data raises IndexError.
SceneReturns(t) ==
    /\ SendReturns(t, "scene")
    /\ LET tk == task[t]
           scene_data == tk.received
           m == DictSet(tk.map, SceneName(scene_data), tk.scene_id)
       IN IF Len(scene_data) < 1
          THEN /\ task' = [task EXCEPT ![t] = Raise(tk, "IndexError")]
               /\ effect_map' = effect_map
          ELSE IF ~StatusOk(scene_data)
          THEN /\ task' = [task EXCEPT ![t] = [tk EXCEPT !.pc = "read"]]
               /\ effect_map' = tk.map
          ELSE IF Len(scene_data) < 3
          THEN /\ task' = [task EXCEPT ![t] = Raise([tk EXCEPT !.map = m], "IndexError")]
               /\ effect_map' = effect_map
          ELSE IF NextId(scene_data) = END_OF_LIST
          THEN /\ task' = [task EXCEPT ![t] =
                    [tk EXCEPT !.pc = "read", !.map = m, !.scene_id = NextId(scene_data)]]
               /\ effect_map' = m
          ELSE /\ task' = [task EXCEPT ![t] =
                    [EnterSend(tk, "scene", GetSceneFrame(NextId(scene_data)))
                        EXCEPT !.map = m, !.scene_id = NextId(scene_data)]]
               /\ effect_map' = effect_map
    /\ UNCHANGED <<effect, brightness, hs_color, color_temp_kelvin, color_mode>>

\* _set_effect returns to async_turn_on's effect branch.
EffectReturns(t) ==
    /\ SendReturns(t, "effect")
    /\ effect' = IF SetEffectResult(task[t].received) THEN task[t].kw.effect ELSE effect
    /\ task' = [task EXCEPT ![t] = Return(task[t])]
    /\ UNCHANGED <<effect_map, brightness, hs_color, color_temp_kelvin, color_mode>>

\* _set_effect(EFFECT_ID_DEFAULT) returns: its result is dropped.
DefaultReturns(t) ==
    /\ SendReturns(t, "default")
    /\ task' = [task EXCEPT ![t] = Return(task[t])]
    /\ UNCHANGED entity

\* _set_effect returns to async_turn_off.
OffReturns(t) ==
    /\ SendReturns(t, "off")
    /\ effect' = IF SetEffectResult(task[t].received)
                 THEN GetEffectNameById(effect_map, EFFECT_ID_OFF)
                 ELSE effect
    /\ task' = [task EXCEPT ![t] = Return(task[t])]
    /\ UNCHANGED <<effect_map, brightness, hs_color, color_temp_kelvin, color_mode>>

\* _set_brightness, _set_uplight_color or _set_downlight_color_temp returns:
\* its result is dropped and async_turn_on goes on to its next if.
OptionReturns(t) ==
    /\ task[t].ctx \in {"bright", "up", "down"}
    /\ SendReturns(t, task[t].ctx)
    /\ StartOption(t, NextStage(task[t].kw, task[t].ctx), task[t])
    /\ UNCHANGED <<effect_map, effect>>

\* _update_effect: read_gatt_char(SCENE_UUID) returns the current scene id.
Read(t) ==
    /\ task[t].pc = "read"
    /\ \E current_scene_id \in ReadIds :
          effect' = GetEffectNameById(effect_map, current_scene_id)
    /\ task' = [task EXCEPT ![t] = Return(task[t])]
    /\ UNCHANGED <<effect_map, brightness, hs_color, color_temp_kelvin, color_mode,
                   lamp, listener, notif>>

\* read_gatt_char raises.
ReadFails(t) ==
    /\ task[t].pc = "read"
    /\ task' = [task EXCEPT ![t] = Raise(task[t], "TransportError")]
    /\ UNCHANGED <<entity, lamp, listener, notif>>

\* The caller cancels the coroutine at the await it is suspended at.
Cancel(t) ==
    /\ Running(t)
    /\ task[t].op # "ping"
    /\ task' = [task EXCEPT ![t] =
          Raise([IdleTask EXCEPT !.op = task[t].op, !.kw = task[t].kw], "CancelledError")]
    /\ listener' = Abandon(t)
    /\ notif' = Orphan(notif, t)
    /\ UNCHANGED <<entity, lamp>>

\* The event loop drops the finished coroutine with its locals.
Reap(t) ==
    /\ task[t].pc = "done"
    /\ task[t].op # "ping"
    /\ task' = [task EXCEPT ![t] = IdleTask]
    /\ UNCHANGED <<entity, lamp, listener, notif>>

\* The steps of coroutine t's own code that need no failure from outside.
Proceed(t) ==
    \/ Connect(t) \/ Arm(t) \/ Write(t) \/ Wait(t)
    \/ SceneReturns(t) \/ EffectReturns(t) \/ DefaultReturns(t)
    \/ OffReturns(t) \/ OptionReturns(t) \/ Read(t)

\* What happens to a call once it has started.
Run ==
    \/ \E t \in Tasks : Connect(t)
    \/ \E t \in Tasks : ConnectFails(t)
    \/ \E t \in Tasks : Arm(t)
    \/ \E t \in Tasks : Write(t)
    \/ \E t \in Tasks : WriteFails(t)
    \/ Deliver
    \/ \E t \in Tasks : Wait(t)
    \/ \E t \in Tasks : SceneReturns(t)
    \/ \E t \in Tasks : EffectReturns(t)
    \/ \E t \in Tasks : DefaultReturns(t)
    \/ \E t \in Tasks : OffReturns(t)
    \/ \E t \in Tasks : OptionReturns(t)
    \/ \E t \in Tasks : Read(t)
    \/ \E t \in Tasks : ReadFails(t)
    \/ \E t \in Tasks : Cancel(t)
    \/ \E t \in Tasks : Reap(t)

AllIdle == \A t \in Tasks : task[t].pc = "idle"

\* The host calls the entity's methods one at a time.
Next ==
    \/ AllIdle /\ \E t \in Tasks : BeginUpdate(t)
    \/ AllIdle /\ \E t \in Tasks, kw \in Kwargs : BeginTurnOn(t, kw)
    \/ AllIdle /\ \E t \in Tasks : BeginTurnOff(t)
    \/ Run

Spec == Init /\ [][Next]_vars

\* C19: is_on is False exactly when the current effect is a key of the
\* table with id 0, and True in every other state: effect None, an empty
\* table, an effect with another id.
C19_IsOnIffSceneNotZero ==
    IsOn(effect_map, effect) <=>
        ~\E i \in 1..Len(effect_map) :
            effect_map[i][1] = effect /\ effect_map[i][2] = EFFECT_ID_OFF

C19_Witness ==
    /\ effect = NameOff
    /\ effect_map = <<(<<NameOff, 0>>), <<NameBright, 7>>, <<NameDim, 3>>>>
    /\ ~IsOn(effect_map, effect)
    /\ task["poll"].pc = "done"

\* A reply with a status, and with the fields after it when the status is
\* 0x00.
WholeDescriptor(r) == Len(r) >= 1 /\ (r[1] = 0 => Len(r) >= 3)

\* One turn of the traversal's loop on the descriptor r, decoded with the
\* next id at (0-based) byte nx and the name from byte nm on: a status other
\* than 0x00 ends the traversal with nothing recorded; otherwise the name is
\* recorded for the scene asked for and the next id is requested, or ends
\* the traversal when it is 0xFF.
DecodedAs(t, nx, nm) ==
    LET r == task[t].received
    IN /\ r[1] # 0 => task'[t].pc = "read" /\ task'[t].map = task[t].map
       /\ r[1] = 0 =>
            /\ task'[t].map =
                  DictSet(task[t].map, SubSeq(r, nm + 1, Len(r)), task[t].scene_id)
            /\ task'[t].scene_id = r[nx + 1]
            /\ r[nx + 1] = END_OF_LIST => task'[t].pc = "read"
            /\ r[nx + 1] # END_OF_LIST =>
                  task'[t].pc = "arm" /\ task'[t].frame = GetSceneFrame(r[nx + 1])

\* C20 (as the code has it): a get-scene-descriptor reply is decoded as
\* [status, one byte that is not read, next id, name bytes...]: byte 0 is
\* the status, byte 2 the id the traversal requests next (0xFF ends it),
\* the name is every byte from byte 3 on.
C20_DescriptorLayout ==
    [][\A t \in Tasks :
          SceneReturns(t) /\ WholeDescriptor(task[t].received) => DecodedAs(t, 2, 3)]_vars

C20_Witness ==
    /\ lamp = LampOf(<<0, 3, 7>>, END_OF_LIST, END_OF_LIST)
    /\ SceneReply(lamp, 0) = <<0, 0, 3>> \o NameOff
    /\ task["poll"].pc = "arm"
    /\ task["poll"].clean
    /\ task["poll"].sent = <<GetSceneFrame(0)>>
    /\ task["poll"].map = <<(<<NameOff, 0>>)>>
    /\ task["poll"].scene_id = 3
    /\ task["poll"].frame = GetSceneFrame(3)

\* C20 (as stated): the reply is decoded as [status, next id, name
\* bytes...]: byte 1 is the id requested next, the name is every byte from
\* byte 2 on.
C20_LayoutAsStated ==
    [][\A t \in Tasks :
          SceneReturns(t) /\ WholeDescriptor(task[t].received) => DecodedAs(t, 1, 2)]_vars

(* ------------------------- interleaved calls -------------------------- *)

\* The lamp and the calls considered when a poll and a service call
\* interleave.
ConcLamps == {LampOf(<<0, 3, 7>>, END_OF_LIST, END_OF_LIST)}

ConcKwargs ==
    {NoKwargs,
     [NoKwargs EXCEPT !.effect = NameBright],
     [NoKwargs EXCEPT !.brightness = 128]}

ConcInit == Init /\ lamp \in ConcLamps

\* The host starts a method of the entity while another is suspended:
\* the poll's async_update beside a service call.
ConcNext ==
    \/ \E t \in Tasks : BeginUpdate(t)
    \/ \E t \in Tasks, kw \in ConcKwargs : BeginTurnOn(t, kw)
    \/ \E t \in Tasks : BeginTurnOff(t)
    \/ Run

ConcSpec == ConcInit /\ [][ConcNext]_vars

(* ------------- one call with an argument of a whole range ------------ *)

Deltas == (0 - MaxDelta)..MaxDelta

\* The adjust_brightness service is called with delta: the schema lets the
\* call through to handle_adjust_brightness, which suspends in
\* _adjust_brightness's establish_connection, or refuses it.
BeginAdjust(t, delta) ==
    /\ t = "svc"
    /\ task[t].pc = "idle"
    /\ LET tk == [StartCall("adjust", NoKwargs) EXCEPT !.delta = delta]
       IN task' = [task EXCEPT ![t] =
            IF InRange(delta)
            THEN [tk EXCEPT !.pc = "adj_connect", !.ctx = "adjust"]
            ELSE Raise(tk, "Invalid")]
    /\ UNCHANGED <<entity, lamp, listener, notif>>

\* establish_connection returns the service's own client; the frame is
\* built and _adjust_brightness suspends in write_gatt_char.
AdjustConnect(t) ==
    /\ task[t].pc = "adj_connect"
    /\ task' = [task EXCEPT ![t].pc = "adj_write", ![t].frame = AdjustFrame(task[t].delta)]
    /\ UNCHANGED <<entity, lamp, listener, notif>>

\* establish_connection raises, outside the try.
AdjustConnectFails(t) ==
    /\ task[t].pc = "adj_connect"
    /\ task' = [task EXCEPT ![t] = Raise(task[t], "TransportError")]
    /\ UNCHANGED <<entity, lamp, listener, notif>>

\* write_gatt_char returns: the lamp has the frame, and sends nothing back.
AdjustWrite(t) ==
    /\ task[t].pc = "adj_write"
    /\ task' = [task EXCEPT ![t].pc = "adj_disconnect",
                            ![t].sent = Append(@, task[t].frame),
                            ![t].result = "returned"]
    /\ UNCHANGED <<entity, lamp, listener, notif>>

\* write_gatt_char raises; the finally clause still disconnects.
AdjustWriteFails(t) ==
    /\ task[t].pc = "adj_write"
    /\ task' = [task EXCEPT ![t].pc = "adj_disconnect", ![t].result = "TransportError"]
    /\ UNCHANGED <<entity, lamp, listener, notif>>

\* finally: device.disconnect() returns, and the call ends as its try did.
AdjustDisconnect(t) ==
    /\ task[t].pc = "adj_disconnect"
    /\ task' = [task EXCEPT ![t].pc = "done"]
    /\ UNCHANGED <<entity, lamp, listener, notif>>

\* The brightness values a caller may pass to async_turn_on.
Brightnesses == 0..255

RangeInit == Init /\ lamp \in ConcLamps

\* One call on the entity as constructed: adjust_brightness with any delta,
\* or async_turn_on with any brightness.
RangeNext ==
    \/ \E t \in Tasks, delta \in Deltas : BeginAdjust(t, delta)
    \/ \E t \in Tasks : AdjustConnect(t)
    \/ \E t \in Tasks : AdjustConnectFails(t)
    \/ \E t \in Tasks : AdjustWrite(t)
    \/ \E t \in Tasks : AdjustWriteFails(t)
    \/ \E t \in Tasks : AdjustDisconnect(t)
    \/ \E t \in Tasks, b \in Brightnesses :
          BeginTurnOn(t, [NoKwargs EXCEPT !.brightness = b])
    \/ \E t \in Tasks : Connect(t)
    \/ \E t \in Tasks : Arm(t)
    \/ \E t \in Tasks : Write(t)
    \/ Deliver
    \/ \E t \in Tasks : Wait(t)
    \/ \E t \in Tasks : OptionReturns(t)

RangeSpec == RangeInit /\ [][RangeNext]_vars

(* ------------------- the lamp's list, read directly ------------------- *)

RECURSIVE Chain(_, _, _)
\* The ids of l's scene list from id on, following next, n ids at most.
Chain(l, id, n) ==
    IF n = 0 \/ id \notin SceneIds THEN << >>
    ELSE <<id>> \o Chain(l, l[id].next, n - 1)

\* The list from scene 0; longer than the lamp has scenes when it loops.
ChainOf(l) == Chain(l, 0, Cardinality(SceneIds) + 1)

Loops(l) == Len(ChainOf(l)) > Cardinality(SceneIds)

\* The position of the first scene of the list whose descriptor fails, or 0.
FailPos(l) ==
    LET c == ChainOf(l)
        F == {i \in 1..Len(c) : l[c[i]].status # 0}
    IN IF F = {} THEN 0 ELSE CHOOSE i \in F : \A j \in F : i <= j

\* An acyclic list ending with 0xFF, every descriptor with status 0x00.
WellFormed(l) == ~Loops(l) /\ FailPos(l) = 0

\* The table of the first n scenes of the list, in list order.
TableOf(l, n) == [i \in 1..n |-> <<l[ChainOf(l)[i]].name, ChainOf(l)[i]>>]

\* The descriptor requests for the first n scenes of the list.
RequestsOf(l, n) == [i \in 1..n |-> GetSceneFrame(ChainOf(l)[i])]

IsPrefix(a, b) == Len(a) <= Len(b) /\ a = SubSeq(b, 1, Len(a))

\* Task t runs (or has just run) async_update and every notification it got
\* answered its own request.
CleanUpdate(t) == task[t].op = "update" /\ task[t].clean

\* The traversal of t's async_update is over and has stored its table.
BuildDone(t) ==
    /\ task[t].op = "update"
    /\ task[t].sent # << >>
    /\ \/ task[t].pc = "read"
       \/ task[t].pc = "done" /\ task[t].result = "returned"

(* ------------------------------- claims ------------------------------- *)

\* C1: on a looping scene list the traversal stops at the first repeated
\* id: it writes no more descriptor requests than the list has scenes, none
\* twice, and ends with the table of the scenes visited before the repeat.
C1_CycleStops ==
    \A t \in Tasks :
        CleanUpdate(t) /\ Loops(lamp) /\ FailPos(lamp) = 0 =>
            /\ \A i, j \in 1..Len(task[t].sent) : i < j => task[t].sent[i] # task[t].sent[j]
            /\ Len(task[t].sent) <= Cardinality(SceneIds)

\* C2: at most one send is outstanding at a time, and every notification a
\* send receives answers that send's own frame.
C2_SendsSerialized ==
    /\ Cardinality({t \in Tasks : InSend(t)}) <= 1
    /\ \A t \in Tasks : task[t].clean

\* C3: a send whose frame is written and that has no notification coming
\* is not stuck: it can go on (by timing out).
C3_SendCompletes ==
    \A t \in Tasks :
        task[t].pc = "wait" /\ ~task[t].flag /\ notif = << >> => ENABLED Proceed(t)

\* C4: whenever no send is in progress, no listener is armed on the API
\* characteristic.
C4_NoListenerLeak ==
    (\A t \in Tasks : ~InSend(t)) => listener = "none"

\* C5: after an async_turn_on with brightness, hs color or color temperature
\* whose exchange failed (transport error or non-zero status), effect,
\* brightness, hs color and color temperature are what they were before.
C5_FailedCommandKeepsState ==
    \A t \in Tasks :
        /\ task[t].pc = "done"
        /\ task[t].op = "turn_on"
        /\ ~HasEffect(task[t].kw)
        /\ NextStage(task[t].kw, "begin") # "end"
        /\ task[t].result = "TransportError" \/ task[t].nacked
        => Snapshot = task[t].pre

\* C6: async_turn_on with an effect of the table, answered with status
\* 0x00, has written the one frame A0 02 05 <id> and the current effect is
\* that name.
C6_EffectSetOnSuccess ==
    \A t \in Tasks :
        /\ task[t].pc = "done"
        /\ task[t].op = "turn_on"
        /\ HasEffect(task[t].kw)
        /\ DictGet(effect_map, task[t].kw.effect) # NoId
        /\ task[t].result = "returned"
        /\ task[t].clean /\ task[t].acked
        => /\ task[t].sent = <<SetEffectFrame(DictGet(effect_map, task[t].kw.effect))>>
           /\ effect = task[t].kw.effect

\* C7: async_turn_off, answered with status 0x00, has written A0 02 05 00
\* and the current effect is the name of scene 0 (None without one), so
\* that with scene 0 in the table is_on is False.
C7_TurnOffTurnsOff ==
    \A t \in Tasks :
        /\ task[t].pc = "done"
        /\ task[t].op = "turn_off"
        /\ task[t].result = "returned"
        /\ task[t].clean /\ task[t].acked
        => /\ task[t].sent = <<SetEffectFrame(0)>>
           /\ effect = GetEffectNameById(effect_map, 0)
           /\ GetEffectNameById(effect_map, 0) # NoneName => ~IsOn(effect_map, effect)

\* C8: on a well-formed scene list, with every request answered by its
\* descriptor, the traversal requests the scenes in list order, each once,
\* and stores the table name -> id of the whole list in that order.
C8_BuildsTable ==
    \A t \in Tasks :
        CleanUpdate(t) /\ WellFormed(lamp) =>
            /\ task[t].result # "IndexError"
            /\ IsPrefix(task[t].sent, RequestsOf(lamp, Len(ChainOf(lamp))))
            /\ IsPrefix(task[t].map, TableOf(lamp, Len(ChainOf(lamp))))
            /\ BuildDone(t) => effect_map = TableOf(lamp, Len(ChainOf(lamp)))

C8_Witness ==
    /\ lamp = LampOf(<<0, 7, 3>>, END_OF_LIST, END_OF_LIST)
    /\ task["poll"].pc = "done"
    /\ task["poll"].result = "returned"
    /\ task["poll"].clean
    /\ task["poll"].sent = <<GetSceneFrame(0), GetSceneFrame(7), GetSceneFrame(3)>>
    /\ effect_map = <<(<<NameOff, 0>>), <<NameBright, 7>>, <<NameDim, 3>>>>

\* C9: a descriptor reply with a non-zero status stops the traversal
\* without an exception: no request follows the failing one, and the table
\* stored is that of the scenes before it.
C9_FailureStopsTraversal ==
    \A t \in Tasks :
        CleanUpdate(t) /\ FailPos(lamp) > 0 =>
            /\ task[t].result # "IndexError"
            /\ IsPrefix(task[t].sent, RequestsOf(lamp, FailPos(lamp)))
            /\ Len(task[t].sent) = FailPos(lamp) => task[t].pc \notin {"arm", "write"}
            /\ BuildDone(t) => effect_map = TableOf(lamp, FailPos(lamp) - 1)

C9_Witness ==
    /\ lamp = LampOf(<<0, 7, 3>>, END_OF_LIST, 3)
    /\ task["poll"].pc = "read"
    /\ task["poll"].clean
    /\ task["poll"].received = <<1>>
    /\ task["poll"].sent = <<GetSceneFrame(0), GetSceneFrame(7), GetSceneFrame(3)>>
    /\ effect_map = <<(<<NameOff, 0>>), <<NameBright, 7>>>>

\* C10: async_turn_on with an effect that is not in the table ends with
\* UnknownEffect raised to the caller.
C10_UnknownEffectRaises ==
    \A t \in Tasks :
        /\ task[t].pc = "done"
        /\ task[t].op = "turn_on"
        /\ HasEffect(task[t].kw)
        /\ DictGet(effect_map, task[t].kw.effect) = NoId
        /\ task[t].result # "CancelledError"
        => task[t].result = "UnknownEffect"

\* The name is a key of the table.
InTable(d, name) == \E i \in 1..Len(d) : d[i][1] = name

\* C11: async_turn_on with an effect that is not a key of the table returns
\* before its first await (no connection, no start_notify, no write), and
\* leaves effect, brightness, hs color, color temperature and the table as
\* they were, whatever other options the call carries.
C11_UnknownEffectSilent ==
    [][\A kw \in Kwargs :
          BeginTurnOn("svc", kw) /\ kw.effect # NoneName /\ ~InTable(effect_map, kw.effect)
          => /\ task'["svc"].pc = "done"
             /\ task'["svc"].result = "returned"
             /\ task'["svc"].sent = << >>
             /\ UNCHANGED <<entity, lamp, listener, notif>>]_vars

C11_Witness ==
    /\ effect_map = <<(<<NameOff, 0>>)>>
    /\ task["svc"].pc = "done"
    /\ task["svc"].op = "turn_on"
    /\ task["svc"].kw = [NoKwargs EXCEPT !.effect = NameBright, !.brightness = 128]
    /\ task["svc"].sent = << >>
    /\ brightness = 255

\* C12: an async_turn_on or async_turn_off one of whose set commands was
\* answered with a status other than 0x00 ends with ProtocolError raised
\* to the caller.
C12_BadReplyRaises ==
    \A t \in Tasks :
        /\ task[t].pc = "done"
        /\ task[t].op \in {"turn_on", "turn_off"}
        /\ task[t].nacked
        /\ task[t].result # "TransportError"
        => task[t].result = "ProtocolError"

\* C13: an async_turn_on with an effect handles nothing else of its kwargs:
\* the only frame it writes is A0 02 05 <id> of the effect (none for an
\* effect that is not in the table), and brightness, hs color and color
\* temperature stay what they were when the call started.
C13_EffectShortCircuits ==
    \A t \in Tasks :
        /\ task[t].op = "turn_on"
        /\ task[t].kw.effect # NoneName
        /\ task[t].result # "CancelledError"
        => /\ IsPrefix(task[t].sent,
                       IF InTable(effect_map, task[t].kw.effect)
                       THEN <<SetEffectFrame(DictGet(effect_map, task[t].kw.effect))>>
                       ELSE << >>)
           /\ brightness = task[t].pre.brightness
           /\ hs_color = task[t].pre.hs_color
           /\ color_temp_kelvin = task[t].pre.color_temp_kelvin
           /\ task[t].ctx \in {"none", "effect"}

C13_Witness ==
    /\ task["svc"].pc = "done"
    /\ task["svc"].result = "returned"
    /\ task["svc"].kw = [NoKwargs EXCEPT !.effect = NameBright, !.brightness = 128]
    /\ task["svc"].sent = <<SetEffectFrame(7)>>
    /\ task["svc"].acked
    /\ brightness = 255

\* The frames of a call with the options kw, in the order brightness
\* (A0 01 03), uplight (A0 01 02 01), downlight (A0 01 02 02), one for each
\* option given; b is the brightness stored when the call started.
OptionFrames(kw, b) ==
    LET bright == IF kw.brightness # NoArg THEN kw.brightness ELSE b
    IN (IF kw.brightness # NoArg
        THEN <<(<<160, 1, 3, BrightnessPercent(kw.brightness)>>)>> ELSE << >>)
       \o (IF kw.hs # NoHs
           THEN <<UplightFrame(kw.hs[1], kw.hs[2], bright)>> ELSE << >>)
       \o (IF kw.kelvin # NoArg
           THEN <<DownlightFrame(kw.kelvin, bright)>> ELSE << >>)

\* C14: an async_turn_on without effect writes one frame for each of
\* brightness, hs color and color temperature it is given, in that order,
\* and starts on the next frame only when the wait of the exchange before
\* it has returned with a notification.
C14_OptionOrder ==
    \A t \in Tasks :
        /\ task[t].op = "turn_on"
        /\ task[t].kw.effect = NoneName
        /\ task[t].kw # NoKwargs
        /\ task[t].result # "CancelledError"
        => /\ IsPrefix(task[t].sent, OptionFrames(task[t].kw, task[t].pre.brightness))
           /\ task[t].pc = "done" /\ task[t].result = "returned"
                 => task[t].sent = OptionFrames(task[t].kw, task[t].pre.brightness)
           /\ task[t].pc \in {"connect", "arm", "write"}
                 => task[t].answered = Len(task[t].sent)
           /\ task[t].pc = "wait" => task[t].answered = Len(task[t].sent) - 1
           /\ task[t].pc \in {"disarm", "done"} /\ task[t].result # "TransportError"
                 => task[t].answered = Len(task[t].sent)

C14_Witness ==
    /\ task["svc"].pc = "done"
    /\ task["svc"].result = "returned"
    /\ task["svc"].kw = [NoKwargs EXCEPT !.brightness = 128, !.hs = <<120, 50>>, !.kelvin = 5000]
    /\ task["svc"].answered = 3
    /\ task["svc"].sent =
          << <<160, 1, 3, 50>>,
             <<160, 1, 2, 1, 0, 0, 127, 85, 85, 128>>,
             <<160, 1, 2, 2, 0, 0, 15, 160, 128>> >>

\* C15: an async_turn_on with no option writes the one frame A0 02 05 FF
\* and, answered with status 0x00, leaves the current effect at the name the
\* table has for scene 255 (None without one); a call with an option
\* writes no A0 02 05 FF.
C15_DefaultScene ==
    \A t \in Tasks :
        /\ task[t].pc = "done"
        /\ task[t].op = "turn_on"
        /\ task[t].result = "returned"
        => /\ task[t].kw = NoKwargs /\ task[t].clean /\ task[t].acked
                 => /\ task[t].sent = <<SetEffectFrame(EFFECT_ID_DEFAULT)>>
                    /\ effect = GetEffectNameById(effect_map, EFFECT_ID_DEFAULT)
           /\ task[t].kw # NoKwargs
                 => \A i \in 1..Len(task[t].sent) :
                        task[t].sent[i] # SetEffectFrame(EFFECT_ID_DEFAULT)

\* The 8-bit two's complement of n, for n in -128..127.
TwosComplement8(n) == IF n < 0 THEN 256 + n ELSE n

\* C16 (as the code has it): for a delta in [-100, 100] adjust_brightness
\* writes the one frame A0 02 08 b, b the two's complement byte of delta
\* (-1 -> FF, 100 -> 64, -100 -> 9C); a delta outside the range is refused
\* and no frame is written.
C16_DeltaEncoding ==
    \A t \in Tasks :
        task[t].op = "adjust" =>
            IF MIN_DELTA <= task[t].delta /\ task[t].delta <= MAX_DELTA
            THEN /\ IsPrefix(task[t].sent,
                             << <<160, 2, 8, TwosComplement8(task[t].delta)>> >>)
                 /\ task[t].pc = "done" /\ task[t].result = "returned"
                       => Len(task[t].sent) = 1
                 /\ task[t].result # "Invalid"
            ELSE /\ task[t].sent = << >>
                 /\ task[t].pc = "done"
                 /\ task[t].result = "Invalid"

C16_Witness ==
    /\ task["svc"].op = "adjust"
    /\ task["svc"].delta = -100
    /\ task["svc"].pc = "done"
    /\ task["svc"].result = "returned"
    /\ task["svc"].sent = << <<160, 2, 8, 156>> >>

\* C16 (as stated): for every integer delta, adjust_brightness writes the
\* one frame A0 02 08 b, b the two's complement byte of delta clamped to
\* [-100, 100] (unless the transport fails).
C16_DeltaClamped ==
    \A t \in Tasks :
        /\ task[t].op = "adjust"
        /\ task[t].pc = "done"
        /\ task[t].result # "TransportError"
        => task[t].sent =
              << <<160, 2, 8, TwosComplement8(Max(-100, Min(100, task[t].delta)))>> >>

\* b / 255 * 100 rounded to the nearest integer (no b in 0..255 is a tie).
RoundPercent(b) == (200 * b + 255) \div 510

\* C17: the frame async_turn_on writes for brightness b in 0..255 is
\* A0 01 03 p, with p the nearest integer to b / 255 * 100, in 0..100.
C17_PercentRounded ==
    \A t \in Tasks :
        /\ task[t].op = "turn_on"
        /\ task[t].kw.brightness # NoArg
        /\ task[t].sent # << >>
        => /\ task[t].sent[1] = <<160, 1, 3, RoundPercent(task[t].kw.brightness)>>
           /\ task[t].sent[1][4] \in 0..100

(* ----------------- calls with any color temperature ------------------ *)

\* Color temperatures a caller may pass: below, at, within, above the range.
Kelvins == {0, 2699, 2700, 3000, 4000, 4001, 70000}

KelvinKwargs ==
    {[NoKwargs EXCEPT !.kelvin = k] : k \in Kelvins}
        \cup {NoKwargs,
              [NoKwargs EXCEPT !.effect = NameBright],
              [NoKwargs EXCEPT !.brightness = 128, !.kelvin = 2000],
              [NoKwargs EXCEPT !.hs = <<120, 50>>, !.kelvin = 6500]}

\* The host calls the entity's methods one at a time, async_turn_on with
\* any of the color temperatures.
KelvinNext ==
    \/ AllIdle /\ \E t \in Tasks : BeginUpdate(t)
    \/ AllIdle /\ \E t \in Tasks, kw \in KelvinKwargs : BeginTurnOn(t, kw)
    \/ AllIdle /\ \E t \in Tasks : BeginTurnOff(t)
    \/ Run

KelvinSpec == RangeInit /\ [][KelvinNext]_vars

IsDownlight(f) == Len(f) = 9 /\ SubSeq(f, 1, 4) = <<160, 1, 2, 2>>

\* C18: the stored color temperature is always within [2700, 4000], and
\* the big-endian 16-bit kelvin field of every downlight frame a call
\* writes is the call's color temperature clamped to [2700, 4000].
C18_KelvinInRange ==
    /\ MIN_KELVIN <= color_temp_kelvin /\ color_temp_kelvin <= MAX_KELVIN
    /\ \A t \in Tasks : \A i \in 1..Len(task[t].sent) :
          IsDownlight(task[t].sent[i]) =>
              /\ task[t].kw.kelvin # NoArg
              /\ task[t].sent[i][7] * 256 + task[t].sent[i][8]
                    = Max(MIN_KELVIN, Min(MAX_KELVIN, task[t].kw.kelvin))
              /\ task[t].sent[i][7] \in 0..255 /\ task[t].sent[i][8] \in 0..255

C18_Witness ==
    /\ task["svc"].pc = "done"
    /\ task["svc"].result = "returned"
    /\ task["svc"].kw.kelvin = 0
    /\ task["svc"].pre.color_temp_kelvin = 4000
    /\ task["svc"].sent = << <<160, 1, 2, 2, 0, 0, 10, 140, 255>> >>
    /\ color_temp_kelvin = 2700

(* ------------------- the API version sensor's poll ------------------- *)

\* LukeRobertsApiVersionSensor.async_update is called on the sensor entity
\* (coroutine "poll" of that entity); it suspends in establish_connection
\* for a client of its own.
BeginPing(t) ==
    /\ t = "poll"
    /\ task[t].pc = "idle"
    /\ task' = [task EXCEPT ![t] =
          [StartCall("ping", NoKwargs) EXCEPT !.pc = "ping_connect", !.ctx = "ping",
                                             !.api_version = task[t].api_version]]
    /\ UNCHANGED <<entity, lamp, listener, notif>>

\* establish_connection returns; in the try, a fresh event and buffer, then
\* the coroutine suspends in start_notify.
PingConnect(t) ==
    /\ task[t].pc = "ping_connect"
    /\ task' = [task EXCEPT ![t].pc = "ping_arm", ![t].flag = FALSE, ![t].received = << >>]
    /\ UNCHANGED <<entity, lamp, listener, notif>>

\* establish_connection raises, outside the try.
PingConnectFails(t) ==
    /\ task[t].pc = "ping_connect"
    /\ task' = [task EXCEPT ![t] = Raise(task[t], "TransportError")]
    /\ UNCHANGED <<entity, lamp, listener, notif>>

\* start_notify(API_UUID, handle_notification) returns.
PingArm(t) ==
    /\ task[t].pc = "ping_arm"
    /\ task' = [task EXCEPT ![t].pc = "ping_write", ![t].armed = TRUE,
                            ![t].frame = PingFrame]
    /\ UNCHANGED <<entity, lamp, listener, notif>>

\* write_gatt_char returns: the lamp has the ping, and answers it with a
\* notification or stays silent.
PingWrite(t) ==
    /\ task[t].pc = "ping_write"
    /\ \E q \in {<<r>> : r \in PingReplies} \cup {<< >>} :
          task' = [task EXCEPT ![t].pc = "ping_wait",
                               ![t].sent = Append(@, task[t].frame),
                               ![t].pending = q]
    /\ UNCHANGED <<entity, lamp, listener, notif>>

\* write_gatt_char raises: the try is left for its finally.
PingWriteFails(t) ==
    /\ task[t].pc = "ping_write"
    /\ task' = [task EXCEPT ![t].pc = "ping_disconnect", ![t].result = "TransportError"]
    /\ UNCHANGED <<entity, lamp, listener, notif>>

\* A notification arrives on the sensor's client: the armed callback stores
\* the data and sets the event; with no callback armed it is dropped.
PingDeliver(t) ==
    /\ task[t].pending # << >>
    /\ task' = [task EXCEPT ![t] =
          IF task[t].armed
          THEN [@ EXCEPT !.pending = Tail(@), !.received = Head(task[t].pending),
                         !.flag = TRUE]
          ELSE [@ EXCEPT !.pending = Tail(@)]]
    /\ UNCHANGED <<entity, lamp, listener, notif>>

\* data_received.wait() returns; the coroutine suspends in stop_notify.
PingWait(t) ==
    /\ task[t].pc = "ping_wait"
    /\ task[t].flag
    /\ task' = [task EXCEPT ![t].pc = "ping_disarm", ![t].answered = @ + 1]
    /\ UNCHANGED <<entity, lamp, listener, notif>>

\* stop_notify returns; the response is decoded, and the try is left for
\* its finally.
PingDisarm(t) ==
    /\ task[t].pc = "ping_disarm"
    /\ task' = [task EXCEPT ![t].pc = "ping_disconnect", ![t].armed = FALSE,
                            ![t].result = "returned",
                            ![t].api_version =
                                IF PingOk(task[t].received) THEN task[t].received[2] ELSE @]
    /\ UNCHANGED <<entity, lamp, listener, notif>>

\* The caller cancels the coroutine at an await inside the try: the try is
\* left for its finally.
PingCancel(t) ==
    /\ task[t].pc \in {"ping_arm", "ping_write", "ping_wait", "ping_disarm"}
    /\ task' = [task EXCEPT ![t].pc = "ping_disconnect", ![t].result = "CancelledError"]
    /\ UNCHANGED <<entity, lamp, listener, notif>>

\* finally: device.disconnect() returns: the client is gone, with its
\* callback and what was on its way; the call ends as its try did.
PingDisconnect(t) ==
    /\ task[t].pc = "ping_disconnect"
    /\ task' = [task EXCEPT ![t].pc = "done", ![t].armed = FALSE, ![t].pending = << >>]
    /\ UNCHANGED <<entity, lamp, listener, notif>>

\* The event loop drops the finished coroutine; the sensor keeps its value.
PingReap(t) ==
    /\ task[t].pc = "done"
    /\ task[t].op = "ping"
    /\ task' = [task EXCEPT ![t] = [IdleTask EXCEPT !.api_version = task[t].api_version]]
    /\ UNCHANGED <<entity, lamp, listener, notif>>

\* The host calls the methods of the light and of the sensor one at a time.
PingNext ==
    \/ AllIdle /\ \E t \in Tasks : BeginPing(t)
    \/ \E t \in Tasks : PingConnect(t)
    \/ \E t \in Tasks : PingConnectFails(t)
    \/ \E t \in Tasks : PingArm(t)
    \/ \E t \in Tasks : PingWrite(t)
    \/ \E t \in Tasks : PingWriteFails(t)
    \/ \E t \in Tasks : PingDeliver(t)
    \/ \E t \in Tasks : PingWait(t)
    \/ \E t \in Tasks : PingDisarm(t)
    \/ \E t \in Tasks : PingCancel(t)
    \/ \E t \in Tasks : PingDisconnect(t)
    \/ \E t \in Tasks : PingReap(t)
    \/ AllIdle /\ \E t \in Tasks : BeginUpdate(t)
    \/ AllIdle /\ \E t \in Tasks, kw \in ConcKwargs : BeginTurnOn(t, kw)
    \/ AllIdle /\ \E t \in Tasks : BeginTurnOff(t)
    \/ Run

PingSpec == RangeInit /\ [][PingNext]_vars

\* C21: in every send the callback is armed before the frame is written
\* and stays armed until the send's stop_notify: a coroutine at or past its
\* write has its callback armed, so every reply on its way to a send finds
\* that send's callback.
C21_ArmedBeforeWrite ==
    \A t \in Tasks :
        /\ task[t].pc \in {"write", "wait", "disarm"} => listener = t
        /\ \A i \in 1..Len(notif) : notif[i].to = t => listener = t /\ InSend(t)
        /\ task[t].pc \in {"ping_write", "ping_wait", "ping_disarm"} => task[t].armed
        /\ task[t].pending # << >> => task[t].armed

C21_Witness ==
    /\ task["svc"].pc = "wait"
    /\ listener = "svc"
    /\ notif = <<[data |-> <<0>>, to |-> "svc"]>>
    /\ task["svc"].sent = <<SetEffectFrame(EFFECT_ID_OFF)>>
    /\ ~task["svc"].flag

\* C22: a send is resolved by the first notification its callback gets:
\* once the event is set, a further notification before stop_notify has
\* returned does not change the bytes the send returns.
C22_FirstNotificationWins ==
    [][\A t \in Tasks :
          /\ task[t].flag /\ task[t].pc \in {"write", "wait", "disarm"}
          /\ task'[t].flag /\ task'[t].pc \in {"write", "wait", "disarm"}
          => task'[t].received = task[t].received]_vars

\* C23: the traversal runs only while the table is empty: a descriptor
\* request is written only by async_update and only with an empty table, a
\* table that is not empty never changes again, and an async_update that
\* finds the table empty (never built, or built with no entry) starts the
\* traversal at scene 0.
C23_TraversalOnce ==
    [][/\ effect_map # << >> => effect_map' = effect_map
       /\ \A t \in Tasks :
            /\ task[t].pc = "write" /\ task'[t].pc = "wait" /\ IsGetScene(task[t].frame)
                  => effect_map = << >> /\ task[t].op = "update"
            /\ task[t].pc = "connect" /\ task'[t].pc \in {"arm", "read"}
                  /\ task[t].op = "update"
                  => IF effect_map = << >>
                     THEN /\ task'[t].pc = "arm"
                          /\ task'[t].frame = GetSceneFrame(0)
                     ELSE task'[t].pc = "read"]_vars

C23_Witness ==
    /\ effect_map = <<(<<NameOff, 0>>), <<NameDim, 3>>, <<NameBright, 7>>>>
    /\ task["poll"].op = "update"
    /\ task["poll"].pc = "done"
    /\ task["poll"].result = "returned"
    /\ task["poll"].sent = << >>

(* ------------- an effect is selected during a traversal -------------- *)

\* async_turn_on with an effect is called while async_update is suspended
\* (or the other way round).
TableNext ==
    \/ \E t \in Tasks : BeginUpdate(t)
    \/ \E t \in Tasks : BeginTurnOn(t, [NoKwargs EXCEPT !.effect = NameDim])
    \/ \E t \in Tasks : Connect(t)
    \/ \E t \in Tasks : ConnectFails(t)
    \/ \E t \in Tasks : Arm(t)
    \/ \E t \in Tasks : Write(t)
    \/ \E t \in Tasks : WriteFails(t)
    \/ Deliver
    \/ \E t \in Tasks : Wait(t)
    \/ \E t \in Tasks : SceneReturns(t)
    \/ \E t \in Tasks : EffectReturns(t)
    \/ \E t \in Tasks : Read(t)
    \/ \E t \in Tasks : ReadFails(t)
    \/ \E t \in Tasks : Reap(t)

TableSpec == ConcInit /\ [][TableNext]_vars

\* C24: the table is assigned only at the end of a traversal, as a whole:
\* every step that changes it is the traversal's last turn and stores the
\* traversal's local table; until then, and after a traversal that an
\* exception ended, is_on, effect_list and async_turn_on's lookup have the
\* table as it was when the traversal started.
C24_TableReplacedWhole ==
    [][effect_map' # effect_map =>
          \E t \in Tasks :
              /\ SceneReturns(t)
              /\ task'[t].pc = "read"
              /\ effect_map' = task'[t].map]_vars

C24_Witness ==
    /\ task["poll"].op = "update"
    /\ task["poll"].pc = "wait"
    /\ task["poll"].map = <<(<<NameOff, 0>>), <<NameDim, 3>>>>
    /\ effect_map = << >>
    /\ DictKeys(effect_map) = << >>
    /\ IsOn(effect_map, effect)
    /\ task["svc"].pc = "done"
    /\ task["svc"].kw.effect = NameDim
    /\ task["svc"].result = "returned"
    /\ task["svc"].sent = << >>

====
